---- MODULE Spec2Model ----
(***************************************************************************)
(* A model of the JSON/REST file handler (weaverest/json_file_handler.py): *)
(* the path resolver, the codec, the request validator and the four verb   *)
(* handlers, acting on a POSIX filesystem tree.                            *)
(*                                                                         *)
(* Text is a sequence of code points, a byte string a sequence of bytes    *)
(* (0..255). A filesystem path is a byte string; the kernel's view of it   *)
(* is the sequence of its components.                                      *)
(***************************************************************************)
EXTENDS Integers, Sequences, FiniteSets, TLC

VARIABLES
    encoding,   \* self.encoding: the configured codec
    fs,         \* the filesystem: component sequence -> node
    pre,        \* the filesystem as it was when the last handler was entered
    req,        \* the last request: verb, resolved path, body
    resp,       \* the response written for it: status and JSON body
    calls,      \* the os calls the last handler issued, in order
    obj_path,   \* the path resolver's input (SpecPath)
    full_path,  \* the path resolver's outcome (SpecPath)
    stage,      \* the codec's position (SpecCodec)
    cbytes,     \* the bytes given to fs_decode (SpecCodec)
    ctext,      \* the text fs_decode returned, or a client's text (SpecCodec)
    cback,      \* what fs_encode made of the text (SpecCodec)
    proc,       \* the handlers in progress, one per connection (SpecSteps)
    fds         \* the descriptors the server's process holds (SpecSteps)

vars == <<encoding, fs, pre, req, resp, calls, obj_path, full_path,
          stage, cbytes, ctext, cback, proc, fds>>

pathVars == <<obj_path, full_path>>
codecVars == <<stage, cbytes, ctext, cback>>
stepVars == <<proc, fds>>

\* ---------------------------------------------------------------- bounds

\* Request paths are built from at most MaxSegs segments joined by "/".
MaxSegs == 3
\* Text sent as "data" has at most MaxDataLen characters.
MaxDataLen == 1
\* self.max_size, the largest file GET reads, scaled down from 2 ** 20.
max_size == 1
\* A file never grows beyond MaxFileLen bytes (a write beyond it is not issued).
MaxFileLen == max_size + 1
\* At most MaxNodes objects exist below the served directory.
MaxNodes == 2
\* The byte strings and texts given to the codec alone have at most MaxBytes
\* elements.
MaxBytes == 3

\* ------------------------------------------------------------ characters

\* os.sep and the "." of posixpath, as code points (and as bytes).
SLASH == 47
DOT == 46

\* ----------------------------------------------------------- string helpers

StartsWith(s, c) == Len(s) > 0 /\ s[1] = c

\* str.split(sep): the pieces between the separators, empty ones included.
RECURSIVE Split(_, _)
Split(s, sep) ==
    IF s = <<>> THEN << <<>> >>
    ELSE LET rest == Split(Tail(s), sep) IN
         IF Head(s) = sep THEN << <<>> >> \o rest
         ELSE << <<Head(s)>> \o Head(rest) >> \o Tail(rest)

\* sep.join(comps)
RECURSIVE JoinSep(_, _)
JoinSep(comps, sep) ==
    IF comps = <<>> THEN <<>>
    ELSE IF Len(comps) = 1 THEN comps[1]
    ELSE comps[1] \o <<sep>> \o JoinSep(Tail(comps), sep)

\* posixpath.join(a, b): an absolute b replaces a.
PathJoin(a, b) ==
    IF StartsWith(b, SLASH) THEN b
    ELSE IF a = <<>> \/ a[Len(a)] = SLASH THEN a \o b
    ELSE a \o <<SLASH>> \o b

\* posixpath.normpath: the number of leading slashes it keeps (exactly two
\* leading slashes are kept, three or more collapse to one).
InitialSlashes(path) ==
    IF ~StartsWith(path, SLASH) THEN 0
    ELSE IF Len(path) >= 2 /\ path[2] = SLASH /\ ~(Len(path) >= 3 /\ path[3] = SLASH)
         THEN 2
    ELSE 1

\* posixpath.normpath: the loop over the components.
RECURSIVE NormComps(_, _, _)
NormComps(comps, initial_slashes, new_comps) ==
    IF comps = <<>> THEN new_comps
    ELSE LET comp == Head(comps)
             n == Len(new_comps)
         IN IF comp = <<>> \/ comp = <<DOT>>
            THEN NormComps(Tail(comps), initial_slashes, new_comps)
            ELSE IF comp # <<DOT, DOT>>
                    \/ (initial_slashes = 0 /\ n = 0)
                    \/ (n > 0 /\ new_comps[n] = <<DOT, DOT>>)
            THEN NormComps(Tail(comps), initial_slashes, Append(new_comps, comp))
            ELSE IF n > 0
            THEN NormComps(Tail(comps), initial_slashes, SubSeq(new_comps, 1, n - 1))
            ELSE NormComps(Tail(comps), initial_slashes, new_comps)

\* posixpath.normpath
NormPath(path) ==
    IF path = <<>> THEN <<DOT>>
    ELSE LET initial_slashes == InitialSlashes(path)
             body == JoinSep(NormComps(Split(path, SLASH), initial_slashes, <<>>), SLASH)
             out == [i \in 1..initial_slashes |-> SLASH] \o body
         IN IF out = <<>> THEN <<DOT>> ELSE out

\* ------------------------------------------------------------------ codec

\* The surrogates U+DC80..U+DCFF stand for the raw bytes 0x80..0xFF
\* (errors="surrogateescape").
IsEscape(cp) == cp >= 56448 /\ cp <= 56575
IsSurrogate(cp) == cp >= 55296 /\ cp <= 57343

\* One character's bytes in UTF-8.
Utf8Bytes(cp) ==
    IF cp < 128 THEN <<cp>>
    ELSE IF cp < 2048 THEN <<192 + (cp \div 64), 128 + (cp % 64)>>
    ELSE IF cp < 65536
         THEN <<224 + (cp \div 4096), 128 + ((cp \div 64) % 64), 128 + (cp % 64)>>
    ELSE <<240 + (cp \div 262144), 128 + ((cp \div 4096) % 64),
           128 + ((cp \div 64) % 64), 128 + (cp % 64)>>

\* Whether str.encode(encoding, errors="surrogateescape") accepts the character.
CanEncodeChar(cp, enc) ==
    \/ IsEscape(cp)
    \/ enc = "utf-8" /\ ~IsSurrogate(cp)
    \/ enc = "latin-1" /\ cp < 256

EncodeChar(cp, enc) ==
    IF IsEscape(cp) THEN <<cp - 56320>>
    ELSE IF enc = "utf-8" THEN Utf8Bytes(cp)
    ELSE <<cp>>

CanEncode(text, enc) == \A i \in 1..Len(text) : CanEncodeChar(text[i], enc)

RECURSIVE EncodeText(_, _)
EncodeText(text, enc) ==
    IF text = <<>> THEN <<>>
    ELSE EncodeChar(Head(text), enc) \o EncodeText(Tail(text), enc)

\* fs_encode: the bytes, or UnicodeEncodeError.
fs_encode(text, enc) ==
    IF CanEncode(text, enc)
    THEN [exc |-> "none", bytes |-> EncodeText(text, enc)]
    ELSE [exc |-> "UnicodeEncodeError", bytes |-> <<>>]

IsCont(b) == b >= 128 /\ b <= 191

\* The well-formed UTF-8 sequence at the head of data: its length and its
\* code point, or length 0 when the first byte starts none.
Utf8Head(data) ==
    LET n == Len(data)
        b1 == data[1]
        c2 == (b1 - 192) * 64 + (data[2] - 128)
        c3 == (b1 - 224) * 4096 + (data[2] - 128) * 64 + (data[3] - 128)
        c4 == (b1 - 240) * 262144 + (data[2] - 128) * 4096
              + (data[3] - 128) * 64 + (data[4] - 128)
    IN IF b1 < 128 THEN [len |-> 1, cp |-> b1]
       ELSE IF b1 >= 194 /\ b1 <= 223 /\ n >= 2 /\ IsCont(data[2])
            THEN [len |-> 2, cp |-> c2]
       ELSE IF b1 >= 224 /\ b1 <= 239 /\ n >= 3 /\ IsCont(data[2]) /\ IsCont(data[3])
               /\ c3 >= 2048 /\ ~IsSurrogate(c3)
            THEN [len |-> 3, cp |-> c3]
       ELSE IF b1 >= 240 /\ b1 <= 244 /\ n >= 4 /\ IsCont(data[2]) /\ IsCont(data[3])
               /\ IsCont(data[4]) /\ c4 >= 65536 /\ c4 <= 1114111
            THEN [len |-> 4, cp |-> c4]
       ELSE [len |-> 0, cp |-> 0]

\* fs_decode with errors="replace": a byte that starts no valid sequence
\* becomes U+FFFD.
RECURSIVE fs_decode_replace(_, _)
fs_decode_replace(data, enc) ==
    IF data = <<>> THEN <<>>
    ELSE IF enc = "latin-1" THEN <<Head(data)>> \o fs_decode_replace(Tail(data), enc)
    ELSE LET h == Utf8Head(data) IN
         IF h.len = 0 THEN <<65533>> \o fs_decode_replace(Tail(data), enc)
         ELSE <<h.cp>> \o fs_decode_replace(SubSeq(data, h.len + 1, Len(data)), enc)

\* fs_decode: bytes.decode(encoding, errors="surrogateescape"), which never
\* fails: a byte that starts no valid sequence becomes U+DC00 + byte.
RECURSIVE fs_decode(_, _)
fs_decode(data, enc) ==
    IF data = <<>> THEN <<>>
    ELSE IF enc = "latin-1" THEN <<Head(data)>> \o fs_decode(Tail(data), enc)
    ELSE LET h == Utf8Head(data) IN
         IF h.len = 0 THEN <<56320 + Head(data)>> \o fs_decode(Tail(data), enc)
         ELSE <<h.cp>> \o fs_decode(SubSeq(data, h.len + 1, Len(data)), enc)

\* -------------------------------------------------------------- exceptions

NoExc == [exc |-> "none", message |-> "", status |-> 0]

\* A Python exception of class cls that is not an ErrorResponse.
Raise(cls) == [exc |-> cls, message |-> "", status |-> 0]

\* ErrorResponse(message, status=status)
ErrorResponse(message, status) ==
    [exc |-> "ErrorResponse", message |-> message, status |-> status]

\* ---------------------------------------------------------- path resolver

\* self.serve_dir: the served directory "/r", absolute and canonical
\* (os.path.realpath).
serve_dir == <<SLASH, 114>>

\* The names a request path is made of: "a" and "Ā" (U+0100, which UTF-8
\* encodes in two bytes and Latin-1 cannot encode).
Names == {<<97>>, <<256>>}

\* The segments of a request path: empty, ".", ".." and the names.
Segments == {<<>>, <<DOT>>, <<DOT, DOT>>} \cup Names

SeqsUpTo(S, n) == UNION {[1..k -> S] : k \in 0..n}

\* The request paths (the group the route r"/(.*)" captures): every string
\* of at most MaxSegs segments joined by "/".
ReqPaths == {JoinSep(segs, SLASH) : segs \in SeqsUpTo(Segments, MaxSegs)}

\* get_full_path with the ".." of normpath not clamped at the virtual root.
get_full_path_unclamped(path, enc) ==
    LET comps == SelectSeq(Split(PathJoin(<<SLASH>>, path), SLASH),
                           LAMBDA c : c # <<>> /\ c # <<DOT>>)
        e == fs_encode(PathJoin(serve_dir, JoinSep(comps, SLASH)), enc)
    IN IF e.exc = "none" THEN [exc |-> NoExc, path |-> e.bytes]
       ELSE [exc |-> ErrorResponse("cannot encode character in path", 400),
             path |-> <<>>]

\* JsonFileHandler.get_full_path: the resolved byte path, or the
\* ErrorResponse raised.
get_full_path(path, enc) ==
    LET normed == NormPath(PathJoin(<<SLASH>>, path))
        text == IF normed = <<SLASH>> THEN serve_dir
                ELSE PathJoin(serve_dir, Tail(normed))
        e == fs_encode(text, enc)
    IN IF e.exc = "none" THEN [exc |-> NoExc, path |-> e.bytes]
       ELSE [exc |-> ErrorResponse("cannot encode character in path", 400),
             path |-> <<>>]

\* The components the kernel walks for a byte path: empty and "." ones drop out.
Components(path) ==
    SelectSeq(Split(path, SLASH), LAMBDA c : c # <<>> /\ c # <<DOT>>)

\* The served directory as the kernel sees it.
RootComps == Components(serve_dir)

IsPrefix(p, q) == Len(p) <= Len(q) /\ SubSeq(q, 1, Len(p)) = p

\* A byte path that names the served directory or an object below it.
WithinRoot(path) ==
    LET comps == Components(path) IN
    /\ StartsWith(path, SLASH)
    /\ IsPrefix(RootComps, comps)
    /\ \A i \in 1..Len(comps) : comps[i] # <<DOT, DOT>>

\* ------------------------------------------------------------- filesystem

\* The uid the server runs as (os.getuid()); uid 0 owns what lies outside
\* the served directory.
ServerUid == 1000

\* The process umask: the entry point and the tests set os.umask(0).
umask == 0

\* stat.S_IMODE: the permission bits and the set-uid, set-gid and sticky bits.
S_IMODE(mode) == mode % 4096

\* x & ~mask, bit by bit.
RECURSIVE AndNot(_, _)
AndNot(x, mask) ==
    IF x = 0 THEN 0
    ELSE (IF mask % 2 = 1 THEN 0 ELSE x % 2) + 2 * AndNot(x \div 2, mask \div 2)

File(mode, uid, data) == [type |-> "file", mode |-> mode, uid |-> uid, data |-> data]
Dir(mode, uid) == [type |-> "directory", mode |-> mode, uid |-> uid, data |-> <<>>]
\* A symbolic link holds its target's path; a socket or a device holds nothing.
Link(uid, target) == [type |-> "symbolic link", mode |-> 511, uid |-> uid, data |-> target]
Special(type, mode, uid) == [type |-> type, mode |-> mode, uid |-> uid, data |-> <<>>]

\* The tree when the server starts: "/" (0755, root's), in it the served
\* directory "/r" (0777, the server's, empty) and the file "/a" (0644,
\* root's), which lies outside the served directory.
InitFs ==
    (<<>> :> Dir(493, 0))
    @@ (RootComps :> Dir(511, ServerUid))
    @@ (<< <<97>> >> :> File(420, 0, <<120>>))

Parent(at) == SubSeq(at, 1, Len(at) - 1)

Children(f, at) == {q \in DOMAIN f : Len(q) = Len(at) + 1 /\ IsPrefix(at, q)}

Remove(f, at) == [q \in DOMAIN f \ {at} |-> f[q]]

\* The kernel's permission check for the server's process: the owner's bits
\* on its own objects, the others' bits elsewhere; bit is 4 (read), 2 (write)
\* or 1 (search).
MayAccess(node, bit) ==
    LET bits == IF node.uid = ServerUid THEN (node.mode \div 64) % 8
                ELSE node.mode % 8
    IN (bits \div bit) % 2 = 1

\* The kernel's path walk from cur along comps: OK and the object reached;
\* ENOENT_LAST when only the last component is missing (at names it);
\* or the errno of the failure. A symbolic link on the way is replaced by
\* its target, one in the last place only when follow is set. (No tree
\* here has a cycle of links.)
RECURSIVE Walk(_, _, _, _)
Walk(f, cur, comps, follow) ==
    IF comps = <<>> THEN [errno |-> "OK", at |-> cur]
    ELSE IF f[cur].type # "directory" THEN [errno |-> "ENOTDIR", at |-> cur]
    ELSE IF ~MayAccess(f[cur], 1) THEN [errno |-> "EACCES", at |-> cur]
    ELSE IF Head(comps) = <<DOT, DOT>>
         THEN Walk(f, IF cur = <<>> THEN cur ELSE Parent(cur), Tail(comps), follow)
    ELSE LET next == Append(cur, Head(comps)) IN
         IF next \notin DOMAIN f
         THEN IF Len(comps) = 1 THEN [errno |-> "ENOENT_LAST", at |-> next]
              ELSE [errno |-> "ENOENT", at |-> cur]
         ELSE IF f[next].type = "symbolic link" /\ (Len(comps) > 1 \/ follow)
         THEN Walk(f, IF StartsWith(f[next].data, SLASH) THEN <<>> ELSE cur,
                   Components(f[next].data) \o Tail(comps), follow)
         ELSE Walk(f, next, Tail(comps), follow)

\* The lookup of open (the last component's link is followed) and that of
\* mkdir, unlink and rmdir (it is not).
Lookup(f, path) == Walk(f, <<>>, Components(path), TRUE)
LookupNoFollow(f, path) == Walk(f, <<>>, Components(path), FALSE)

SysResult(errno, f, at) == [errno |-> errno, fs |-> f, at |-> at]

\* os.open(path, O_RDONLY); a socket cannot be opened (ENXIO)
os_open_rdonly(f, path) ==
    LET w == Lookup(f, path) IN
    IF w.errno = "ENOENT_LAST" THEN SysResult("ENOENT", f, w.at)
    ELSE IF w.errno # "OK" THEN SysResult(w.errno, f, w.at)
    ELSE IF ~MayAccess(f[w.at], 4) THEN SysResult("EACCES", f, w.at)
    ELSE IF f[w.at].type = "socket file" THEN SysResult("ENXIO", f, w.at)
    ELSE SysResult("OK", f, w.at)

\* os.open(path, O_WRONLY | O_APPEND)
os_open_append(f, path) ==
    LET w == Lookup(f, path) IN
    IF w.errno = "ENOENT_LAST" THEN SysResult("ENOENT", f, w.at)
    ELSE IF w.errno # "OK" THEN SysResult(w.errno, f, w.at)
    ELSE IF f[w.at].type = "directory" THEN SysResult("EISDIR", f, w.at)
    ELSE IF ~MayAccess(f[w.at], 2) THEN SysResult("EACCES", f, w.at)
    ELSE IF f[w.at].type = "socket file" THEN SysResult("ENXIO", f, w.at)
    ELSE SysResult("OK", f, w.at)

\* The mode an object gets at creation: mode & ~umask.
CreateMode(mode) == AndNot(mode, umask)

\* os.open(path, O_WRONLY | O_CREAT | O_TRUNC, mode) with every existing
\* file's mode reset to the given one.
os_open_creat_trunc_chmod(f, path, mode) ==
    LET w == Lookup(f, path) IN
    IF w.errno = "ENOENT_LAST"
    THEN IF ~MayAccess(f[Parent(w.at)], 2) THEN SysResult("EACCES", f, w.at)
         ELSE SysResult("OK", (w.at :> File(CreateMode(mode), ServerUid, <<>>)) @@ f, w.at)
    ELSE IF w.errno # "OK" THEN SysResult(w.errno, f, w.at)
    ELSE IF f[w.at].type = "directory" THEN SysResult("EISDIR", f, w.at)
    ELSE IF ~MayAccess(f[w.at], 2) THEN SysResult("EACCES", f, w.at)
    ELSE IF f[w.at].type = "socket file" THEN SysResult("ENXIO", f, w.at)
    ELSE SysResult("OK", [f EXCEPT ![w.at].data = <<>>, ![w.at].mode = CreateMode(mode)],
                   w.at)

\* os.open(path, O_WRONLY | O_CREAT | O_TRUNC, mode): a missing file is
\* created with the mode, an existing one is truncated and keeps its mode.
os_open_creat_trunc(f, path, mode) ==
    LET w == Lookup(f, path) IN
    IF w.errno = "ENOENT_LAST"
    THEN IF ~MayAccess(f[Parent(w.at)], 2) THEN SysResult("EACCES", f, w.at)
         ELSE SysResult("OK", (w.at :> File(CreateMode(mode), ServerUid, <<>>)) @@ f, w.at)
    ELSE IF w.errno # "OK" THEN SysResult(w.errno, f, w.at)
    ELSE IF f[w.at].type = "directory" THEN SysResult("EISDIR", f, w.at)
    ELSE IF ~MayAccess(f[w.at], 2) THEN SysResult("EACCES", f, w.at)
    ELSE IF f[w.at].type = "socket file" THEN SysResult("ENXIO", f, w.at)
    ELSE SysResult("OK", [f EXCEPT ![w.at].data = <<>>], w.at)

\* os.write(fd, data) on a descriptor without O_APPEND whose offset is
\* offset: the bytes replace what lies there.
os_write_at(f, at, offset, data) ==
    [f EXCEPT ![at].data =
        SubSeq(@, 1, offset) \o data \o SubSeq(@, offset + Len(data) + 1, Len(@))]

\* os.write on a descriptor opened without O_APPEND and not written to
\* before: the bytes go to the start of the file.
os_write_no_append(f, at, data) == os_write_at(f, at, 0, data)

\* os.write(fd, data) on a descriptor opened with O_APPEND, or on one
\* opened with O_TRUNC (the file is empty then): the bytes go to the end.
os_write(f, at, data) == [f EXCEPT ![at].data = @ \o data]

\* os.mkdir(path, mode): of the mode the kernel keeps the permission bits
\* and the sticky bit.
os_mkdir(f, path, mode) ==
    LET w == LookupNoFollow(f, path) IN
    IF w.errno = "OK" THEN SysResult("EEXIST", f, w.at)
    ELSE IF w.errno # "ENOENT_LAST" THEN SysResult(w.errno, f, w.at)
    ELSE IF ~MayAccess(f[Parent(w.at)], 2) THEN SysResult("EACCES", f, w.at)
    ELSE SysResult("OK", (w.at :> Dir(CreateMode(mode % 1024), ServerUid)) @@ f, w.at)

\* os.unlink(path) (Linux: EISDIR for a directory)
os_unlink(f, path) ==
    LET w == LookupNoFollow(f, path) IN
    IF w.errno = "ENOENT_LAST" THEN SysResult("ENOENT", f, w.at)
    ELSE IF w.errno # "OK" THEN SysResult(w.errno, f, w.at)
    ELSE IF w.at = <<>> THEN SysResult("EISDIR", f, w.at)
    ELSE IF ~MayAccess(f[Parent(w.at)], 2) THEN SysResult("EACCES", f, w.at)
    ELSE IF f[w.at].type = "directory" THEN SysResult("EISDIR", f, w.at)
    ELSE SysResult("OK", Remove(f, w.at), w.at)

\* os.rmdir(path)
os_rmdir(f, path) ==
    LET w == LookupNoFollow(f, path) IN
    IF w.errno = "ENOENT_LAST" THEN SysResult("ENOENT", f, w.at)
    ELSE IF w.errno # "OK" THEN SysResult(w.errno, f, w.at)
    ELSE IF w.at = <<>> THEN SysResult("EBUSY", f, w.at)
    ELSE IF f[w.at].type # "directory" THEN SysResult("ENOTDIR", f, w.at)
    ELSE IF ~MayAccess(f[Parent(w.at)], 2) THEN SysResult("EACCES", f, w.at)
    ELSE IF Children(f, w.at) # {} THEN SysResult("ENOTEMPTY", f, w.at)
    ELSE SysResult("OK", Remove(f, w.at), w.at)

\* The OSError subclass Python raises for an errno.
OSErrorOf(errno) ==
    Raise(CASE errno = "ENOENT" -> "FileNotFoundError"
            [] errno = "EACCES" -> "PermissionError"
            [] errno = "EISDIR" -> "IsADirectoryError"
            [] errno = "ENOTDIR" -> "NotADirectoryError"
            [] errno = "EEXIST" -> "FileExistsError"
            [] OTHER -> "OSError")

\* ------------------------------------------------------- request validator

JString(text) == [t |-> "string", v |-> text]
JNumber(n) == [t |-> "number", v |-> n]
JBool(b) == [t |-> "boolean", v |-> b]
JObject(fields) == [t |-> "object", v |-> fields]

\* A request body as the validator sees it: the media type of Content-Type,
\* whether the charset is known and decodes the bytes, whether the text is
\* JSON, and the JSON value.
Body(content_type, decodes, parses, json) ==
    [content_type |-> content_type, decodes |-> decodes, parses |-> parses,
     json |-> json]

JsonBody(json) == Body("application/json", TRUE, TRUE, json)

NoBody == Body("none", TRUE, FALSE, JNumber(0))

POST_SCHEMA == [properties |-> [data |-> "string"], required |-> {"data"}]

PUT_SCHEMA ==
    [properties |-> [directory |-> "boolean", mode |-> "string", data |-> "string"],
     required |-> {}]

\* jsonschema.validate for a schema of type "object" with typed properties
\* and required keys.
SchemaValid(json, schema) ==
    /\ json.t = "object"
    /\ schema.required \subseteq DOMAIN json.v
    /\ \A k \in DOMAIN json.v \cap DOMAIN schema.properties :
           json.v[k].t = schema.properties[k]

\* get_json_data that decodes the body before it looks at the media type.
get_json_data_decode_first(body, schema) ==
    IF ~body.decodes
    THEN [exc |-> ErrorResponse("could not decode request body", 400), json |-> body.json]
    ELSE IF body.content_type # "application/json"
    THEN [exc |-> ErrorResponse("expecting JSON data", 400), json |-> body.json]
    ELSE IF ~body.parses
    THEN [exc |-> ErrorResponse("could not parse JSON request body", 400),
          json |-> body.json]
    ELSE IF ~SchemaValid(body.json, schema)
    THEN [exc |-> ErrorResponse("data does not match expected schema", 400),
          json |-> body.json]
    ELSE [exc |-> NoExc, json |-> body.json]

\* JsonFileHandler.get_json_data: the JSON value, or the ErrorResponse raised.
get_json_data(body, schema) ==
    IF body.content_type # "application/json"
    THEN [exc |-> ErrorResponse("expecting JSON data", 400), json |-> body.json]
    ELSE IF ~body.decodes
    THEN [exc |-> ErrorResponse("could not decode request body", 400), json |-> body.json]
    ELSE IF ~body.parses
    THEN [exc |-> ErrorResponse("could not parse JSON request body", 400),
          json |-> body.json]
    ELSE IF ~SchemaValid(body.json, schema)
    THEN [exc |-> ErrorResponse("data does not match expected schema", 400),
          json |-> body.json]
    ELSE [exc |-> NoExc, json |-> body.json]

\* dict.get(key, default) on a JSON object.
JGet(json, key, default) ==
    IF key \in DOMAIN json.v THEN json.v[key].v ELSE default

\* The digits of n in base 8, as text.
RECURSIVE OctDigits(_)
OctDigits(n) == IF n < 8 THEN <<48 + n>> ELSE OctDigits(n \div 8) \o <<48 + (n % 8)>>

\* f"{n:03o}": octal, zero-padded to at least three digits.
FormatOct03(n) ==
    LET d == OctDigits(n) IN [i \in 1..(3 - Len(d)) |-> 48] \o d

IsOctalText(text) == text # <<>> /\ \A i \in 1..Len(text) : text[i] \in 48..55

RECURSIVE OctValue(_)
OctValue(text) ==
    IF text = <<>> THEN 0 ELSE 8 * OctValue(SubSeq(text, 1, Len(text) - 1)) + (text[Len(text)] - 48)

\* int(text, 8) for a text of digits and letters: the value, or ValueError.
ParseOct(text) ==
    IF IsOctalText(text) THEN [exc |-> NoExc, value |-> OctValue(text)]
    ELSE [exc |-> Raise("ValueError"), value |-> 0]

\* ---------------------------------------------------------------- handlers
\* A handler is given fp, the outcome of self.get_full_path(obj_path), and
\* looks at it where the code makes the call.

\* What a handler body leaves behind: the exception that ended it (or none),
\* the filesystem, the dict passed to self.write and the os calls issued.
Failed(exc, f, c) == [exc |-> exc, fs |-> f, body |-> <<>>, calls |-> c]
Done(f, body, c) == [exc |-> NoExc, fs |-> f, body |-> body, calls |-> c]

\* JSON null (Python None) in a "data" field.
None == <<-1>>

RECURSIVE SetToSeq(_)
SetToSeq(S) ==
    IF S = {} THEN <<>>
    ELSE LET x == CHOOSE y \in S : TRUE IN <<x>> \o SetToSeq(S \ {x})

\* os.listdir(fd): the entry names as str (decoded with the filesystem
\* encoding, UTF-8 with surrogateescape), in the directory's own order.
os_listdir(f, at) ==
    LET names == SetToSeq({q[Len(q)] : q \in Children(f, at)}) IN
    [i \in 1..Len(names) |-> fs_decode(names[i], "utf-8")]

\* os.fsencode: back to the entry's bytes.
os_fsencode(text) == EncodeText(text, "utf-8")

\* str < str: by code point, a proper prefix first.
RECURSIVE LexLess(_, _)
LexLess(x, y) ==
    IF y = <<>> THEN FALSE
    ELSE IF x = <<>> THEN TRUE
    ELSE IF Head(x) # Head(y) THEN Head(x) < Head(y)
    ELSE LexLess(Tail(x), Tail(y))

RECURSIVE Insert(_, _)
Insert(sortedSeq, x) ==
    IF sortedSeq = <<>> THEN <<x>>
    ELSE IF LexLess(x, Head(sortedSeq)) THEN <<x>> \o sortedSeq
    ELSE <<Head(sortedSeq)>> \o Insert(Tail(sortedSeq), x)

\* sorted(list of str)
RECURSIVE sorted(_)
sorted(list) ==
    IF list = <<>> THEN <<>> ELSE Insert(sorted(Tail(list)), Head(list))

\* JsonFileHandler.get without the size check: every file is read.
get_unlimited(f, fp, enc) ==
    IF fp.exc.exc # "none" THEN Failed(fp.exc, f, <<>>)
    ELSE LET o == os_open_rdonly(f, fp.path) IN
    IF o.errno # "OK" THEN Failed(OSErrorOf(o.errno), f, <<"open">>)
    ELSE LET node == f[o.at]
             result == [mode |-> FormatOct03(S_IMODE(node.mode)),
                        uid |-> node.uid, gid |-> node.uid, type |-> node.type]
         IN IF node.type = "file"
            THEN Done(f, result @@ [data |-> fs_decode(node.data, enc)],
                      <<"open", "fstat", "read", "close">>)
            ELSE IF node.type = "directory"
            THEN LET names == os_listdir(f, o.at) IN
                 Done(f, result @@ [children |->
                          sorted([i \in 1..Len(names) |->
                                     fs_decode(os_fsencode(names[i]), enc)])],
                      <<"open", "fstat", "listdir", "close">>)
            ELSE Done(f, result, <<"open", "fstat", "close">>)

\* JsonFileHandler.get (the time fields mtime and ctime are left out)
get(f, fp, enc) ==
    IF fp.exc.exc # "none" THEN Failed(fp.exc, f, <<>>)
    ELSE LET o == os_open_rdonly(f, fp.path) IN
    IF o.errno # "OK" THEN Failed(OSErrorOf(o.errno), f, <<"open">>)
    ELSE LET node == f[o.at]
             result == [mode |-> FormatOct03(S_IMODE(node.mode)),
                        uid |-> node.uid, gid |-> node.uid, type |-> node.type]
         IN IF node.type = "file"
            THEN IF Len(node.data) > max_size
                 THEN Done(f, result @@ [data |-> None, message |-> "file too long"],
                           <<"open", "fstat", "close">>)
                 ELSE Done(f, result @@ [data |-> fs_decode(node.data, enc)],
                           <<"open", "fstat", "read", "close">>)
            ELSE IF node.type = "directory"
            THEN LET names == os_listdir(f, o.at) IN
                 Done(f, result @@ [children |->
                          sorted([i \in 1..Len(names) |->
                                     fs_decode(os_fsencode(names[i]), enc)])],
                      <<"open", "fstat", "listdir", "close">>)
            ELSE Done(f, result, <<"open", "fstat", "close">>)

\* JsonFileHandler.post that opens the file before it encodes "data".
post_open_first(f, fp, body, enc) ==
    LET j == get_json_data(body, POST_SCHEMA) IN
    IF j.exc.exc # "none" THEN Failed(j.exc, f, <<>>)
    ELSE IF fp.exc.exc # "none" THEN Failed(fp.exc, f, <<>>)
    ELSE LET o == os_open_append(f, fp.path) IN
    IF o.errno = "EISDIR"
    THEN Failed(ErrorResponse("cannot append to directory", 400), f, <<"open">>)
    ELSE IF o.errno # "OK" THEN Failed(OSErrorOf(o.errno), f, <<"open">>)
    ELSE LET e == fs_encode(j.json.v.data.v, enc) IN
    IF e.exc # "none"
    THEN Failed(ErrorResponse("cannot encode 'data'", 400), f, <<"open", "close">>)
    ELSE Done(os_write(o.fs, o.at, e.bytes), [message |-> "data written"],
              <<"open", "write", "close">>)

\* JsonFileHandler.post
post(f, fp, body, enc) ==
    LET j == get_json_data(body, POST_SCHEMA) IN
    IF j.exc.exc # "none" THEN Failed(j.exc, f, <<>>)
    ELSE LET e == fs_encode(j.json.v.data.v, enc) IN
    IF e.exc # "none" THEN Failed(ErrorResponse("cannot encode 'data'", 400), f, <<>>)
    ELSE IF fp.exc.exc # "none" THEN Failed(fp.exc, f, <<>>)
    ELSE LET o == os_open_append(f, fp.path) IN
    IF o.errno = "EISDIR"
    THEN Failed(ErrorResponse("cannot append to directory", 400), f, <<"open">>)
    ELSE IF o.errno # "OK" THEN Failed(OSErrorOf(o.errno), f, <<"open">>)
    ELSE Done(os_write(o.fs, o.at, e.bytes), [message |-> "data written"],
              <<"open", "write", "close">>)

\* JsonFileHandler.put that opens the file without O_TRUNC and writes from
\* offset 0: what lies beyond the new data stays.
put_no_truncate(f, fp, body, enc) ==
    LET j == get_json_data(body, PUT_SCHEMA) IN
    IF j.exc.exc # "none" THEN Failed(j.exc, f, <<>>)
    ELSE LET directory == JGet(j.json, "directory", FALSE)
             str_mode == JGet(j.json, "mode",
                              IF directory THEN <<55, 55, 53>> ELSE <<54, 54, 52>>)
             data == JGet(j.json, "data", <<>>)
             m == ParseOct(str_mode)
         IN
    IF m.exc.exc # "none" THEN Failed(m.exc, f, <<>>)
    ELSE LET mode == S_IMODE(m.value) IN
    IF fp.exc.exc # "none" THEN Failed(fp.exc, f, <<>>)
    ELSE IF directory
    THEN LET k == os_mkdir(f, fp.path, mode) IN
         IF k.errno = "EEXIST"
         THEN Failed(ErrorResponse("file already exists", 400), f, <<"mkdir">>)
         ELSE IF k.errno # "OK" THEN Failed(OSErrorOf(k.errno), f, <<"mkdir">>)
         ELSE Done(k.fs, [message |-> "object updated"], <<"mkdir">>)
    ELSE LET e == fs_encode(data, enc) IN
    IF e.exc # "none" THEN Failed(ErrorResponse("cannot encode 'data'", 400), f, <<>>)
    ELSE LET o == os_open_creat_trunc(f, fp.path, mode) IN
    IF o.errno = "EISDIR"
    THEN Failed(ErrorResponse("cannot write to directory", 400), f, <<"open">>)
    ELSE IF o.errno # "OK" THEN Failed(OSErrorOf(o.errno), f, <<"open">>)
    ELSE LET old == IF o.at \in DOMAIN f THEN f[o.at].data ELSE <<>> IN
         Done([o.fs EXCEPT ![o.at].data =
                   e.bytes \o SubSeq(old, Len(e.bytes) + 1, Len(old))],
              [message |-> "object updated"], <<"open", "write", "close">>)

\* JsonFileHandler.put
put(f, fp, body, enc) ==
    LET j == get_json_data(body, PUT_SCHEMA) IN
    IF j.exc.exc # "none" THEN Failed(j.exc, f, <<>>)
    ELSE LET directory == JGet(j.json, "directory", FALSE)
             str_mode == JGet(j.json, "mode",
                              IF directory THEN <<55, 55, 53>> ELSE <<54, 54, 52>>)
             data == JGet(j.json, "data", <<>>)
             m == ParseOct(str_mode)
         IN
    IF m.exc.exc # "none" THEN Failed(m.exc, f, <<>>)
    ELSE LET mode == S_IMODE(m.value) IN
    IF fp.exc.exc # "none" THEN Failed(fp.exc, f, <<>>)
    ELSE IF directory
    THEN LET k == os_mkdir(f, fp.path, mode) IN
         IF k.errno = "EEXIST"
         THEN Failed(ErrorResponse("file already exists", 400), f, <<"mkdir">>)
         ELSE IF k.errno # "OK" THEN Failed(OSErrorOf(k.errno), f, <<"mkdir">>)
         ELSE Done(k.fs, [message |-> "object updated"], <<"mkdir">>)
    ELSE LET e == fs_encode(data, enc) IN
    IF e.exc # "none" THEN Failed(ErrorResponse("cannot encode 'data'", 400), f, <<>>)
    ELSE LET o == os_open_creat_trunc(f, fp.path, mode) IN
    IF o.errno = "EISDIR"
    THEN Failed(ErrorResponse("cannot write to directory", 400), f, <<"open">>)
    ELSE IF o.errno # "OK" THEN Failed(OSErrorOf(o.errno), f, <<"open">>)
    ELSE Done(os_write(o.fs, o.at, e.bytes), [message |-> "object updated"],
              <<"open", "write", "close">>)

\* JsonFileHandler.delete
delete(f, fp, enc) ==
    IF fp.exc.exc # "none" THEN Failed(fp.exc, f, <<>>)
    ELSE LET root == fs_encode(serve_dir, enc) IN
    IF root.exc # "none" THEN Failed(Raise("UnicodeEncodeError"), f, <<>>)
    ELSE IF fp.path = root.bytes
    THEN Failed(ErrorResponse("refusing to delete root directory", 400), f, <<>>)
    ELSE LET u == os_unlink(f, fp.path) IN
    IF u.errno = "OK" THEN Done(u.fs, [message |-> "file deleted"], <<"unlink">>)
    ELSE IF u.errno # "EISDIR" THEN Failed(OSErrorOf(u.errno), f, <<"unlink">>)
    ELSE LET r == os_rmdir(f, fp.path) IN
    IF r.errno # "OK"
    THEN Failed(ErrorResponse("directory not empty", 400), f, <<"unlink", "rmdir">>)
    ELSE Done(r.fs, [message |-> "file deleted"], <<"unlink", "rmdir">>)

\* error_handler that writes the exception's class for what it has no
\* branch for.
error_handler_detail(out) ==
    IF out.exc.exc = "none" THEN [status |-> 200, body |-> out.body]
    ELSE IF out.exc.exc = "FileNotFoundError"
    THEN [status |-> 404, body |-> [message |-> "file not found"]]
    ELSE IF out.exc.exc = "PermissionError"
    THEN [status |-> 422, body |-> [message |-> "permission denied"]]
    ELSE IF out.exc.exc = "ErrorResponse"
    THEN [status |-> out.exc.status, body |-> [message |-> out.exc.message]]
    ELSE [status |-> 500, body |-> [message |-> out.exc.exc]]

\* error_handler: the status and body written for a handler's outcome.
error_handler(out) ==
    IF out.exc.exc = "none" THEN [status |-> 200, body |-> out.body]
    ELSE IF out.exc.exc = "FileNotFoundError"
    THEN [status |-> 404, body |-> [message |-> "file not found"]]
    ELSE IF out.exc.exc = "PermissionError"
    THEN [status |-> 422, body |-> [message |-> "permission denied"]]
    ELSE IF out.exc.exc = "ErrorResponse"
    THEN [status |-> out.exc.status, body |-> [message |-> out.exc.message]]
    ELSE [status |-> 500, body |-> [message |-> "internal server error"]]

\* ------------------------------------------------------------------ inputs

Encodings == {"utf-8", "latin-1"}

\* What get_full_path yields over the request paths, per encoding.
ResolvedUtf8 == {get_full_path(p, "utf-8") : p \in ReqPaths}
ResolvedLatin1 == {get_full_path(p, "latin-1") : p \in ReqPaths}
Resolved(enc) == IF enc = "utf-8" THEN ResolvedUtf8 ELSE ResolvedLatin1

\* The characters of "data": "a", "é" (one byte in Latin-1, two in UTF-8),
\* "Ā" (not in Latin-1) and U+DCFF (the escape of the byte 0xFF).
DataChars == {97, 233, 256, 56575}

DataTexts == SeqsUpTo(DataChars, MaxDataLen)

\* The "mode" texts: "1400" (read-only for the owner, with the sticky bit)
\* and "9" (no octal number).
ModeTexts == {<<49, 52, 48, 48>>, <<57>>}

\* Bodies the validator refuses for both schemas: well-formed JSON sent as
\* text/plain; bytes that are neither of the media type nor decodable; JSON
\* whose charset is unknown or does not decode the bytes (what does not
\* decode does not parse either); text that is not JSON; JSON that is no
\* object.
BadBodies ==
    {Body("text/plain", TRUE, TRUE, JObject([data |-> JString(<<97>>)])),
     Body("text/plain", FALSE, FALSE, JNumber(0)),
     Body("application/json", FALSE, FALSE, JNumber(0)),
     Body("application/json", TRUE, FALSE, JNumber(0)),
     JsonBody(JNumber(123))}

PostBodies ==
    BadBodies
    \cup {JsonBody(JObject(<<>>)), JsonBody(JObject([data |-> JNumber(123)]))}
    \cup {JsonBody(JObject([data |-> JString(t)])) : t \in DataTexts}

\* PUT bodies: a directory with each mode; a file with each mode and each
\* data; "directory": false; a "data" that is no string.
PutBodies ==
    BadBodies
    \cup {JsonBody(JObject([directory |-> JBool(TRUE)] @@ m @@ t)) :
            m \in {<<>>} \cup {[mode |-> JString(x)] : x \in ModeTexts},
            t \in {<<>>, [data |-> JString(<<97>>)]}}
    \cup {JsonBody(JObject(m @@ t)) :
            m \in {<<>>} \cup {[mode |-> JString(x)] : x \in ModeTexts},
            t \in {<<>>} \cup {[data |-> JString(x)] : x \in DataTexts}}
    \cup {JsonBody(JObject([directory |-> JBool(FALSE), data |-> JString(<<97>>)])),
          JsonBody(JObject([data |-> JNumber(123)]))}

\* ----------------------------------------------------------- state machine

\* The variables of the codec's and of the step-wise specification, at rest.
CodecIdle ==
    /\ stage = "idle"
    /\ cbytes = <<>>
    /\ ctext = <<>>
    /\ cback = [exc |-> "none", bytes |-> <<>>]

StepsIdle ==
    /\ proc = <<>>
    /\ fds = {}

NoReq == [verb |-> "none", target |-> [exc |-> NoExc, path |-> <<>>], body |-> NoBody]
NoResp == [status |-> 0, body |-> <<>>]
Unresolved == [exc |-> NoExc, path |-> <<>>]

\* The model's bounds on the tree a request may leave behind: the objects
\* the server has created (its own, the served directory apart) and the
\* length of every file.
InBounds(f) ==
    /\ Cardinality({q \in DOMAIN f : f[q].uid = ServerUid /\ q # RootComps}) <= MaxNodes
    /\ \A q \in DOMAIN f : f[q].type = "file" => Len(f[q].data) <= MaxFileLen

Init ==
    /\ encoding \in Encodings
    /\ fs = InitFs
    /\ pre = InitFs
    /\ req = NoReq
    /\ resp = NoResp
    /\ calls = <<>>
    /\ obj_path = <<>>
    /\ full_path = Unresolved
    /\ CodecIdle
    /\ StepsIdle

\* One request served: the handler runs under error_handler.
Serve(verb, fp, body, out) ==
    /\ req.verb = "none"
    /\ out.fs = fs \/ InBounds(out.fs)
    /\ fs' = out.fs
    /\ pre' = fs
    /\ req' = [verb |-> verb, target |-> fp, body |-> body]
    /\ resp' = error_handler(out)
    /\ calls' = out.calls
    /\ UNCHANGED <<encoding, pathVars, codecVars, stepVars>>

Get == \E fp \in Resolved(encoding) : Serve("GET", fp, NoBody, get(fs, fp, encoding))

Post ==
    \E fp \in Resolved(encoding), body \in PostBodies :
        Serve("POST", fp, body, post(fs, fp, body, encoding))

Put ==
    \E fp \in Resolved(encoding), body \in PutBodies :
        Serve("PUT", fp, body, put(fs, fp, body, encoding))

Delete ==
    \E fp \in Resolved(encoding) : Serve("DELETE", fp, NoBody, delete(fs, fp, encoding))

\* The response is sent; the server waits for the next request.
Finish ==
    /\ req.verb # "none"
    /\ req' = NoReq
    /\ resp' = NoResp
    /\ pre' = fs
    /\ calls' = <<>>
    /\ UNCHANGED <<encoding, fs, pathVars, codecVars, stepVars>>

Next == Get \/ Post \/ Put \/ Delete \/ Finish

Spec == Init /\ [][Next]_vars

\* The path resolver alone, over every request path.
InitPath ==
    /\ encoding \in Encodings
    /\ fs = InitFs
    /\ pre = InitFs
    /\ req = NoReq
    /\ resp = NoResp
    /\ calls = <<>>
    /\ obj_path \in ReqPaths
    /\ full_path = Unresolved
    /\ CodecIdle
    /\ StepsIdle

Resolve ==
    /\ full_path = Unresolved
    /\ full_path' = get_full_path(obj_path, encoding)
    /\ UNCHANGED <<encoding, fs, pre, req, resp, calls, obj_path, codecVars, stepVars>>

NextPath == Resolve

SpecPath == InitPath /\ [][NextPath]_vars

\* GET alone, on served directories that hold, besides a directory and a
\* regular file, a socket or a character device and a symbolic link.

SpecialTypes == {"socket file", "character device"}

\* The link's targets: the directory "/r/a", the file "a/a" (relative to the
\* link's directory) and the socket or device "/r/a/Ā".
LinkTargets ==
    {<<SLASH, 114, SLASH, 97>>, <<97, SLASH, 97>>,
     <<SLASH, 114, SLASH, 97, SLASH, 196, 128>>}

\* The served directory "/r" with the directory "a", in it the file "a" and
\* the special object "Ā" (the bytes C4 80), and the link "Ā" beside "a".
TypesFs(special, target) ==
    (<<>> :> Dir(493, 0))
    @@ (RootComps :> Dir(511, ServerUid))
    @@ (RootComps \o << <<97>> >> :> Dir(493, ServerUid))
    @@ (RootComps \o << <<97>>, <<97>> >> :> File(420, ServerUid, <<120>>))
    @@ (RootComps \o << <<97>>, <<196, 128>> >> :> Special(special, 420, ServerUid))
    @@ (RootComps \o << <<196, 128>> >> :> Link(ServerUid, target))

InitTypes ==
    /\ encoding \in Encodings
    /\ \E special \in SpecialTypes, target \in LinkTargets : fs = TypesFs(special, target)
    /\ pre = fs
    /\ req = NoReq
    /\ resp = NoResp
    /\ calls = <<>>
    /\ obj_path = <<>>
    /\ full_path = Unresolved
    /\ CodecIdle
    /\ StepsIdle

NextTypes == Get \/ Finish

SpecTypes == InitTypes /\ [][NextTypes]_vars

\* All four verbs on a served directory that holds symbolic links to
\* objects outside it.

\* Beside the served directory "/r" lie the file "/a" (0644, root's) and
\* the directory "/t" (0777, root's); in the served directory the link "a"
\* points to "/a" and the link "Ā" (the bytes C4 80) to "/t".
LinksFs ==
    InitFs
    @@ (<< <<116>> >> :> Dir(511, 0))
    @@ (RootComps \o << <<97>> >> :> Link(0, <<SLASH, 97>>))
    @@ (RootComps \o << <<196, 128>> >> :> Link(0, <<SLASH, 116>>))

InitLinks ==
    /\ encoding = "utf-8"
    /\ fs = LinksFs
    /\ pre = LinksFs
    /\ req = NoReq
    /\ resp = NoResp
    /\ calls = <<>>
    /\ obj_path = <<>>
    /\ full_path = Unresolved
    /\ CodecIdle
    /\ StepsIdle

\* The bodies sent here: POST appends "a"; PUT writes an empty file or
\* makes a directory.
LinkPostBodies == {JsonBody(JObject([data |-> JString(<<97>>)]))}
LinkPutBodies ==
    {JsonBody(JObject(<<>>)), JsonBody(JObject([directory |-> JBool(TRUE)]))}

PostLinks ==
    \E fp \in Resolved(encoding), body \in LinkPostBodies :
        Serve("POST", fp, body, post(fs, fp, body, encoding))

PutLinks ==
    \E fp \in Resolved(encoding), body \in LinkPutBodies :
        Serve("PUT", fp, body, put(fs, fp, body, encoding))

NextLinks == Get \/ PostLinks \/ PutLinks \/ Delete \/ Finish

SpecLinks == InitLinks /\ [][NextLinks]_vars

\* The codec alone: bytes read from a file are decoded and the text encoded
\* again; a text sent by a client is encoded for writing.

\* Bytes that make, in UTF-8, "a", "é" (C3 A9), "€" (E2 82 AC), an overlong
\* form (E0 80 80), an encoded surrogate (ED A0 80), stray continuation and
\* lead bytes, and FF, which occurs in no UTF-8 sequence.
ByteSamples == {97, 128, 130, 160, 169, 172, 195, 224, 226, 237, 255}

CodecBytes == SeqsUpTo(ByteSamples, MaxBytes)

\* Texts a client sends: the characters of "data" and U+DC80.
ClientTexts == SeqsUpTo(DataChars \cup {56448}, MaxBytes)

InitCodec ==
    /\ encoding \in Encodings
    /\ fs = InitFs
    /\ pre = InitFs
    /\ req = NoReq
    /\ resp = NoResp
    /\ calls = <<>>
    /\ obj_path = <<>>
    /\ full_path = Unresolved
    /\ StepsIdle
    /\ cback = [exc |-> "none", bytes |-> <<>>]
    /\ \/ stage = "file" /\ cbytes \in CodecBytes /\ ctext = <<>>
       \/ stage = "client" /\ cbytes = <<>> /\ ctext \in ClientTexts

\* get: result["data"] = self.fs_decode(data)
Decode ==
    /\ stage = "file"
    /\ ctext' = fs_decode(cbytes, encoding)
    /\ stage' = "decoded"
    /\ UNCHANGED <<encoding, fs, pre, req, resp, calls, pathVars, cbytes, cback, stepVars>>

\* post: write_data = self.fs_encode(data["data"]), on the text just decoded
\* or on the client's text.
Encode ==
    /\ stage \in {"decoded", "client"}
    /\ cback' = fs_encode(ctext, encoding)
    /\ stage' = IF stage = "decoded" THEN "round trip" ELSE "written"
    /\ UNCHANGED <<encoding, fs, pre, req, resp, calls, pathVars, cbytes, ctext, stepVars>>

NextCodec == Decode \/ Encode

SpecCodec == InitCodec /\ [][NextCodec]_vars

\* The handlers step by step, one os call at a time, on several connections
\* at once: GET, POST and PUT (file semantics) of requests that pass the
\* validator and the codec. Every os call after the open may fail.

\* The connections being served at once.
NumConns == 2
Conns == 1..NumConns
\* Each connection carries at most MaxRequests requests, one after another.
MaxRequests == 2

\* The served directory holds the file "a" with the content "c".
StepsFs == InitFs @@ (RootComps \o << <<97>> >> :> File(436, ServerUid, <<99>>))

\* The request paths: the served directory, the file "a", the missing "b".
StepPaths == {<<>>, <<97>>, <<98>>}

\* The "data" of POST: "aa" and "b"; PUT sends "b".
StepData == {<<97, 97>>, <<98>>}

\* A connection between requests; after a request it keeps what the
\* request was and how it was answered. n counts its requests; seen is the
\* length a POST found the file to have when it opened it.
Waiting(n) ==
    [pc |-> "idle", verb |-> "none", path |-> <<>>, data |-> <<>>, fd |-> -1,
     at |-> <<>>, seen |-> 0, exc |-> NoExc, status |-> 0, n |-> n]

\* The lowest descriptor number not in use.
NewFd == CHOOSE n \in 0..Cardinality(fds) : n \notin fds

\* posix_open without try/finally: the descriptor is closed only when the
\* body of the with statement ends without an exception.
posix_open_no_finally(exc) == IF exc = NoExc THEN "close" ELSE "respond"

\* posix_open: where control goes when the body of the with statement ends,
\* with or without an exception: to the finally clause, os.close(fd).
posix_open(exc) == "close"

InitSteps ==
    /\ encoding = "utf-8"
    /\ fs = StepsFs
    /\ pre = StepsFs
    /\ req = NoReq
    /\ resp = NoResp
    /\ calls = <<>>
    /\ obj_path = <<>>
    /\ full_path = Unresolved
    /\ CodecIdle
    /\ proc = [c \in Conns |-> Waiting(0)]
    /\ fds = {}

StepUnchanged == <<encoding, pre, req, resp, calls, pathVars, codecVars>>

\* A request arrives; validation, the encoding of "data" and get_full_path
\* are done (they touch neither the tree nor a descriptor).
Start(c) ==
    /\ proc[c].pc = "idle"
    /\ proc[c].n < MaxRequests
    /\ \E verb \in {"GET", "POST", "PUT"}, obj \in StepPaths, data \in StepData :
          LET fp == get_full_path(obj, encoding) IN
          /\ fp.exc = NoExc
          /\ verb # "POST" => data = <<98>>
          /\ proc' = [proc EXCEPT ![c] =
                 [Waiting(proc[c].n + 1) EXCEPT
                     !.pc = "open", !.verb = verb, !.path = fp.path,
                     !.data = IF verb = "GET" THEN <<>> ELSE EncodeText(data, encoding)]]
    /\ UNCHANGED <<fs, fds, StepUnchanged>>

\* posix_open: fd = os.open(path, flags, mode=mode)
Open(c) ==
    /\ proc[c].pc = "open"
    /\ LET p == proc[c]
           o == CASE p.verb = "GET" -> os_open_rdonly(fs, p.path)
                  [] p.verb = "POST" -> os_open_append(fs, p.path)
                  [] p.verb = "PUT" -> os_open_creat_trunc(fs, p.path, 436)
       IN IF o.errno = "OK"
          THEN /\ fs' = o.fs
               /\ fds' = fds \cup {NewFd}
               /\ proc' = [proc EXCEPT ![c].fd = NewFd, ![c].at = o.at,
                                       ![c].seen = IF p.verb = "POST"
                                                   THEN Len(o.fs[o.at].data) ELSE 0,
                                       ![c].pc = IF p.verb = "GET" THEN "fstat" ELSE "write"]
          ELSE /\ proc' = [proc EXCEPT ![c].pc = "respond",
                              ![c].exc =
                                  IF o.errno = "EISDIR" /\ p.verb = "POST"
                                  THEN ErrorResponse("cannot append to directory", 400)
                                  ELSE IF o.errno = "EISDIR"
                                  THEN ErrorResponse("cannot write to directory", 400)
                                  ELSE OSErrorOf(o.errno)]
               /\ UNCHANGED <<fs, fds>>
    /\ UNCHANGED StepUnchanged

\* get: file_stat = os.fstat(fd), and the branch on the type and the size
Fstat(c) ==
    /\ proc[c].pc = "fstat"
    /\ \E ok \in BOOLEAN :
          LET node == fs[proc[c].at] IN
          proc' = [proc EXCEPT
              ![c].exc = IF ok THEN NoExc ELSE Raise("OSError"),
              ![c].pc = IF ~ok THEN posix_open(Raise("OSError"))
                        ELSE IF node.type = "file" /\ Len(node.data) <= max_size THEN "read"
                        ELSE IF node.type = "directory" THEN "listdir"
                        ELSE posix_open(NoExc)]
    /\ UNCHANGED <<fs, fds, StepUnchanged>>

\* get: data = os.read(fd, file_stat.st_size); self.fs_decode(data)
Read(c) ==
    /\ proc[c].pc = "read"
    /\ \E ok \in BOOLEAN :
          LET exc == IF ok THEN NoExc ELSE Raise("OSError") IN
          proc' = [proc EXCEPT ![c].exc = exc, ![c].pc = posix_open(exc)]
    /\ UNCHANGED <<fs, fds, StepUnchanged>>

\* get: os.listdir(fd)
Listdir(c) ==
    /\ proc[c].pc = "listdir"
    /\ \E ok \in BOOLEAN :
          LET exc == IF ok THEN NoExc ELSE Raise("OSError") IN
          proc' = [proc EXCEPT ![c].exc = exc, ![c].pc = posix_open(exc)]
    /\ UNCHANGED <<fs, fds, StepUnchanged>>

\* post, put: os.write(fd, write_data); the descriptor of post has
\* O_APPEND, that of put writes at its offset, 0.
Write(c) ==
    /\ proc[c].pc = "write"
    /\ \E ok \in BOOLEAN :
          LET exc == IF ok THEN NoExc ELSE Raise("OSError") IN
          /\ proc' = [proc EXCEPT ![c].exc = exc, ![c].pc = posix_open(exc)]
          /\ fs' = IF ~ok THEN fs
                   ELSE IF proc[c].verb = "POST" THEN os_write(fs, proc[c].at, proc[c].data)
                   ELSE os_write_at(fs, proc[c].at, 0, proc[c].data)
    /\ UNCHANGED <<fds, StepUnchanged>>

\* posix_open: finally: os.close(fd)
Close(c) ==
    /\ proc[c].pc = "close"
    /\ fds' = fds \ {proc[c].fd}
    /\ proc' = [proc EXCEPT ![c].fd = -1, ![c].pc = "respond"]
    /\ UNCHANGED <<fs, StepUnchanged>>

\* error_handler writes the response; the handler has returned.
Respond(c) ==
    /\ proc[c].pc = "respond"
    /\ proc' = [proc EXCEPT
                   ![c].status = error_handler(Failed(proc[c].exc, fs, <<>>)).status,
                   ![c].pc = "idle"]
    /\ UNCHANGED <<fs, fds, StepUnchanged>>

NextSteps ==
    \E c \in Conns :
        \/ Start(c)
        \/ Open(c)
        \/ Fstat(c)
        \/ Read(c)
        \/ Listdir(c)
        \/ Write(c)
        \/ Close(c)
        \/ Respond(c)

SpecSteps == InitSteps /\ [][NextSteps]_vars

\* DELETE step by step, unlink and then rmdir, on several connections at
\* once, while files are put into the directories.

\* The served directory holds the empty directory "a" and the directory "d"
\* with the file "f".
DeleteFs ==
    InitFs
    @@ (RootComps \o << <<97>> >> :> Dir(493, ServerUid))
    @@ (RootComps \o << <<100>> >> :> Dir(493, ServerUid))
    @@ (RootComps \o << <<100>>, <<102>> >> :> File(436, ServerUid, <<>>))

\* The request paths of DELETE: "", "a", "d" and "d/f"; PUT writes "a/f".
DeletePaths == {<<>>, <<97>>, <<100>>, <<100, SLASH, 102>>}
PutPaths == {<<97, SLASH, 102>>}

InitDelete ==
    /\ encoding = "utf-8"
    /\ fs = DeleteFs
    /\ pre = DeleteFs
    /\ req = NoReq
    /\ resp = NoResp
    /\ calls = <<>>
    /\ obj_path = <<>>
    /\ full_path = Unresolved
    /\ CodecIdle
    /\ proc = [c \in Conns |-> Waiting(0)]
    /\ fds = {}

\* delete: get_full_path and the refusal of the served directory
StartDelete(c) ==
    /\ proc[c].pc = "idle"
    /\ proc[c].n < MaxRequests
    /\ \E obj \in DeletePaths :
          LET fp == get_full_path(obj, encoding)
              root == fs_encode(serve_dir, encoding).bytes
          IN
          /\ fp.exc = NoExc
          /\ proc' = [proc EXCEPT ![c] =
                 [Waiting(proc[c].n + 1) EXCEPT
                     !.verb = "DELETE", !.path = fp.path,
                     !.pc = IF fp.path = root THEN "respond" ELSE "unlink",
                     !.exc = IF fp.path = root
                             THEN ErrorResponse("refusing to delete root directory", 400)
                             ELSE NoExc]]
    /\ UNCHANGED <<fs, fds, StepUnchanged>>

\* delete: os.unlink(full_path)
Unlink(c) ==
    /\ proc[c].pc = "unlink"
    /\ LET u == os_unlink(fs, proc[c].path) IN
       /\ fs' = u.fs
       /\ proc' = [proc EXCEPT
              ![c].pc = IF u.errno = "EISDIR" THEN "rmdir" ELSE "respond",
              ![c].exc = IF u.errno \in {"OK", "EISDIR"} THEN NoExc ELSE OSErrorOf(u.errno)]
    /\ UNCHANGED <<fds, StepUnchanged>>

\* delete: os.rmdir(full_path), every OSError turned into "directory not
\* empty". seen keeps the number of entries the directory had when rmdir
\* was called, -1 when the path named no directory any more.
Rmdir(c) ==
    /\ proc[c].pc = "rmdir"
    /\ LET r == os_rmdir(fs, proc[c].path)
           w == LookupNoFollow(fs, proc[c].path)
       IN
       /\ fs' = r.fs
       /\ proc' = [proc EXCEPT
              ![c].pc = "respond",
              ![c].at = w.at,
              ![c].seen = IF w.errno = "OK" /\ fs[w.at].type = "directory"
                          THEN Cardinality(Children(fs, w.at)) ELSE -1,
              ![c].exc = IF r.errno = "OK" THEN NoExc
                         ELSE ErrorResponse("directory not empty", 400)]
    /\ UNCHANGED <<fds, StepUnchanged>>

\* A PUT (file semantics, no data) served whole between two steps.
PutWhole ==
    /\ \E obj \in PutPaths :
          fs' = put(fs, get_full_path(obj, encoding), JsonBody(JObject(<<>>)), encoding).fs
    /\ UNCHANGED <<proc, fds, StepUnchanged>>

NextDelete ==
    \/ \E c \in Conns :
          \/ StartDelete(c)
          \/ Unlink(c)
          \/ Rmdir(c)
          \/ Respond(c)
    \/ PutWhole

SpecDelete == InitDelete /\ [][NextDelete]_vars

\* ------------------------------------------------------------------ claims

\* The served directory as a byte path.
RootBytes == EncodeText(serve_dir, "utf-8")

Resolved_ == full_path # Unresolved

\* A request path made of ".", ".." and name segments separated by single
\* slashes (no empty segment between two slashes).
NoDoubleSlash(p) == \A i \in 1..(Len(p) - 1) : ~(p[i] = SLASH /\ p[i + 1] = SLASH)

\* The names left when "." is skipped, a name is entered and ".." leaves the
\* last name entered, or stays at the root when none is left.
RECURSIVE ClampedStack(_, _)
ClampedStack(segs, stack) ==
    IF segs = <<>> THEN stack
    ELSE IF Head(segs) = <<>> \/ Head(segs) = <<DOT>> THEN ClampedStack(Tail(segs), stack)
    ELSE IF Head(segs) = <<DOT, DOT>>
    THEN ClampedStack(Tail(segs), SubSeq(stack, 1, Len(stack) - 1))
    ELSE ClampedStack(Tail(segs), Append(stack, Head(segs)))

\* The text of the path the clamped stack names below the served directory.
RECURSIVE BelowRoot(_)
BelowRoot(stack) ==
    IF stack = <<>> THEN serve_dir
    ELSE BelowRoot(SubSeq(stack, 1, Len(stack) - 1)) \o <<SLASH>> \o stack[Len(stack)]

\* C1: for every request path built from ".", ".." and name segments, the
\* resolver returns the served directory or a path below it, namely the one
\* named by the segments with ".." clamped at the virtual root (or it
\* refuses a name the codec cannot encode).
C1_DotSegmentsStayInRoot ==
    (Resolved_ /\ NoDoubleSlash(obj_path)) =>
        LET text == BelowRoot(ClampedStack(Split(obj_path, SLASH), <<>>)) IN
        IF CanEncode(text, encoding)
        THEN /\ full_path.exc = NoExc
             /\ full_path.path = EncodeText(text, encoding)
             /\ WithinRoot(full_path.path)
        ELSE full_path.exc = ErrorResponse("cannot encode character in path", 400)

\* C1 witness: "/a/.." has been resolved, to the served directory itself.
C1_Witness ==
    /\ obj_path = <<SLASH, 97, SLASH, DOT, DOT>>
    /\ full_path = [exc |-> NoExc, path |-> RootBytes]

\* C2: for every request path whatsoever, leading slashes included, the
\* resolver returns the served directory or a path below it.
C2_EveryPathStaysInRoot ==
    (Resolved_ /\ full_path.exc = NoExc) => WithinRoot(full_path.path)

\* The last response is exactly {"message": message} with the status.
Answers(status, message) ==
    /\ resp.status = status
    /\ DOMAIN resp.body = {"message"}
    /\ resp.body.message = message

\* The last request was verb, on a path the resolver accepted.
Served(verb) == req.verb = verb /\ req.target.exc = NoExc

\* What the request's path named when the handler was entered.
Target == Lookup(pre, req.target.path)

TargetIs(type) == Target.errno = "OK" /\ pre[Target.at].type = type

\* The request's body passed the validator for the schema.
BodyValid(schema) == get_json_data(req.body, schema).exc = NoExc

\* The fields of a valid PUT body, with the defaults of put.
PutDirectory == JGet(req.body.json, "directory", FALSE)
PutModeText ==
    JGet(req.body.json, "mode", IF PutDirectory THEN <<55, 55, 53>> ELSE <<54, 54, 52>>)
PutData == JGet(req.body.json, "data", <<>>)

\* A PUT with file semantics whose body, mode and data the handler accepts.
PutFile ==
    /\ Served("PUT")
    /\ BodyValid(PUT_SCHEMA)
    /\ ~PutDirectory
    /\ IsOctalText(PutModeText)
    /\ CanEncode(PutData, encoding)

\* A PUT with "directory": true whose body and mode the handler accepts.
PutDir ==
    /\ Served("PUT")
    /\ BodyValid(PUT_SCHEMA)
    /\ PutDirectory
    /\ IsOctalText(PutModeText)

\* A POST whose body and data the handler accepts.
PostData == req.body.json.v.data.v
PostFile ==
    /\ Served("POST")
    /\ BodyValid(POST_SCHEMA)
    /\ CanEncode(PostData, encoding)

\* C3: DELETE on a path that resolves to the served directory answers 422
\* "refusing to delete root directory" and performs no filesystem operation;
\* the tree is unchanged and the served directory still exists.
C3_DeleteRootRefused422 ==
    (Served("DELETE") /\ req.target.path = RootBytes) =>
        /\ Answers(422, "refusing to delete root directory")
        /\ calls = <<>>
        /\ fs = pre
        /\ RootComps \in DOMAIN fs

\* C4: DELETE on a directory (below the served directory) that contains an
\* entry answers 422 "directory not empty" and changes nothing; on an empty
\* one it answers 200 "file deleted" and the directory is gone.
C4_DeleteDirectory ==
    (/\ Served("DELETE")
     /\ WithinRoot(req.target.path)
     /\ req.target.path # RootBytes
     /\ TargetIs("directory")) =>
        IF Children(pre, Target.at) # {}
        THEN Answers(422, "directory not empty") /\ fs = pre
        ELSE Answers(200, "file deleted") /\ Target.at \notin DOMAIN fs

\* C5: POST on an existing directory answers 422 "cannot append to
\* directory", PUT with file semantics answers 422 "cannot write to
\* directory"; the directory is unchanged.
C5_WriteToDirectoryRefused422 ==
    /\ (PostFile /\ WithinRoot(req.target.path) /\ TargetIs("directory")) =>
           (Answers(422, "cannot append to directory") /\ fs = pre)
    /\ (PutFile /\ WithinRoot(req.target.path) /\ TargetIs("directory")) =>
           (Answers(422, "cannot write to directory") /\ fs = pre)

\* C6: PUT with "directory": true answers 422 "file already exists" on a
\* path that exists, 404 "file not found" when the parent does not exist,
\* and in both cases changes nothing; otherwise (the parent is a directory
\* the server may write to) it creates the directory and answers 200
\* "object updated".
C6_PutDirectory ==
    (PutDir /\ WithinRoot(req.target.path)) =>
        /\ Target.errno = "OK" => (Answers(422, "file already exists") /\ fs = pre)
        /\ Target.errno = "ENOENT" => (Answers(404, "file not found") /\ fs = pre)
        /\ (Target.errno = "ENOENT_LAST" /\ MayAccess(pre[Parent(Target.at)], 2)) =>
               /\ Answers(200, "object updated")
               /\ Target.at \in DOMAIN fs
               /\ fs[Target.at].type = "directory"

\* C7: PUT mode is applied only at creation. A PUT with file semantics that
\* creates the file (the path was missing from a directory the server may
\* write to) is answered 200 and gives the file the permission bits of
\* "mode" (664 without one); a PUT to an existing file leaves the file's
\* permission bits as they were, whatever "mode" says, and replaces the
\* content when the server may write to the file.
C7_ModeOnlyAtCreation ==
    PutFile =>
        /\ (Target.errno = "ENOENT_LAST" /\ MayAccess(pre[Parent(Target.at)], 2)) =>
               /\ Answers(200, "object updated")
               /\ Target.at \in DOMAIN fs
               /\ fs[Target.at].type = "file"
               /\ FormatOct03(fs[Target.at].mode) = PutModeText
               /\ (~("mode" \in DOMAIN req.body.json.v) => fs[Target.at].mode = 436)
        /\ TargetIs("file") =>
               /\ fs[Target.at].mode = pre[Target.at].mode
               /\ MayAccess(pre[Target.at], 2) =>
                      /\ Answers(200, "object updated")
                      /\ fs[Target.at].data = EncodeText(PutData, encoding)

\* C7 witness: a PUT with mode "1400" to an existing file of mode 664 was
\* answered 200 and the file still has mode 664.
C7_Witness ==
    /\ PutFile
    /\ TargetIs("file")
    /\ PutModeText = <<49, 52, 48, 48>>
    /\ pre[Target.at].mode = 436
    /\ resp.status = 200
    /\ fs[Target.at].mode = 436

\* C8: after a PUT with file semantics answered 200 "object updated" the
\* file's content is exactly encode(data), empty when "data" is absent;
\* nothing of the previous content remains.
C8_PutReplacesContent ==
    (/\ Served("PUT")
     /\ BodyValid(PUT_SCHEMA)
     /\ ~PutDirectory
     /\ resp.status = 200) =>
        /\ Answers(200, "object updated")
        /\ Target.at \in DOMAIN fs
        /\ fs[Target.at].type = "file"
        /\ fs[Target.at].data = EncodeText(PutData, encoding)
        /\ Len(fs[Target.at].data) >= Len(PutData)
        /\ ~("data" \in DOMAIN req.body.json.v) => fs[Target.at].data = <<>>

\* C8 witness: a PUT replaced two bytes of content by one.
C8_Witness ==
    /\ PutFile
    /\ TargetIs("file")
    /\ resp.status = 200
    /\ Len(pre[Target.at].data) = 2
    /\ Len(fs[Target.at].data) = 1

\* C9: POST on an existing regular file (that the server may write to)
\* answers 200 "data written" and the content becomes the old content
\* followed by encode(data); on a path that does not exist it answers 404
\* "file not found" and nothing is created.
C9_PostAppendsOrNotFound ==
    (PostFile /\ WithinRoot(req.target.path)) =>
        /\ (TargetIs("file") /\ MayAccess(pre[Target.at], 2)) =>
               /\ Answers(200, "data written")
               /\ fs = [pre EXCEPT ![Target.at].data = @ \o EncodeText(PostData, encoding)]
        /\ Target.errno \in {"ENOENT_LAST", "ENOENT", "ENOTDIR"} =>
               (Answers(404, "file not found") /\ fs = pre)

\* C10: GET on a regular file (that the server may read) answers 200; when
\* the size is greater than max_size, "data" is null, "message" is "file too
\* long" and nothing is read; otherwise, the size equal to max_size
\* included, "data" is the decoding of the whole content and there is no
\* "message".
C10_GetFileTooLong ==
    (Served("GET") /\ TargetIs("file") /\ MayAccess(pre[Target.at], 4)) =>
        /\ resp.status = 200
        /\ fs = pre
        /\ "data" \in DOMAIN resp.body
        /\ IF Len(pre[Target.at].data) > max_size
           THEN /\ resp.body.data = None
                /\ "message" \in DOMAIN resp.body
                /\ resp.body.message = "file too long"
                /\ \A i \in 1..Len(calls) : calls[i] # "read"
           ELSE /\ resp.body.data # None
                /\ CanEncode(resp.body.data, encoding)
                /\ EncodeText(resp.body.data, encoding) = pre[Target.at].data
                /\ ~("message" \in DOMAIN resp.body)

\* C10 witness: a GET on a file longer than max_size was answered with
\* "data" null.
C10_Witness ==
    /\ Served("GET")
    /\ TargetIs("file")
    /\ Len(pre[Target.at].data) > max_size
    /\ resp.status = 200
    /\ resp.body.data = None

\* The text with one escape code point (U+DC00 + byte) per byte.
Escaped(bytes) == [i \in 1..Len(bytes) |-> 56320 + bytes[i]]

\* A byte that occurs in no well-formed UTF-8 sequence at its first place:
\* a continuation byte, or F8..FF.
StartsNoUtf8(byte) == IsCont(byte) \/ byte >= 248

\* C11: the codec round-trips losslessly. For every byte string, valid or
\* not in the configured encoding, the decoded text is made of characters
\* and escape code points only (no other surrogate), has one escape per byte
\* that belongs to no valid sequence, and encodes back to exactly the bytes;
\* a client's text made of escape code points is encoded, in both encodings,
\* to the raw bytes they stand for (U+DCFF to the byte FF).
C11_CodecRoundTrip ==
    /\ stage \in {"decoded", "round trip"} =>
           /\ \A i \in 1..Len(ctext) : IsSurrogate(ctext[i]) => IsEscape(ctext[i])
           /\ Len(ctext) <= Len(cbytes)
           /\ (encoding = "utf-8" /\ \A i \in 1..Len(cbytes) : StartsNoUtf8(cbytes[i]))
                  => ctext = Escaped(cbytes)
           /\ (encoding = "utf-8" /\ \A i \in 1..Len(cbytes) : cbytes[i] < 128)
                  => ctext = cbytes
    /\ stage = "round trip" =>
           /\ cback.exc = "none"
           /\ cback.bytes = cbytes
    /\ (stage = "written" /\ \A i \in 1..Len(ctext) : IsEscape(ctext[i])) =>
           /\ cback.exc = "none"
           /\ Escaped(cback.bytes) = ctext

\* C11 witness: the bytes FF 61, invalid in UTF-8, were decoded to U+DCFF "a"
\* and encoded back.
C11_Witness ==
    /\ stage = "round trip"
    /\ encoding = "utf-8"
    /\ cbytes = <<255, 97>>
    /\ ctext = <<56575, 97>>
    /\ cback.bytes = cbytes

\* The JSON values the two schemas accept, spelled out.
IsJson(json, key, type) == key \in DOMAIN json.v => json.v[key].t = type
PostShape(json) ==
    json.t = "object" /\ "data" \in DOMAIN json.v /\ json.v.data.t = "string"
PutShape(json) ==
    /\ json.t = "object"
    /\ IsJson(json, "directory", "boolean")
    /\ IsJson(json, "mode", "string")
    /\ IsJson(json, "data", "string")

ValidatorMessages ==
    {"expecting JSON data", "could not decode request body",
     "could not parse JSON request body", "data does not match expected schema"}

\* C12: for POST and PUT the validator's four checks apply in the order
\* media type, decoding, JSON syntax, schema; the first that fails gives the
\* answer, with status 400 and its message, and the tree is not touched; a
\* body that passes all four is not answered with any of the four messages.
\* The empty object is refused for POST and accepted for PUT.
C12_ValidatorOrder ==
    req.verb \in {"POST", "PUT"} =>
        LET body == req.body
            shape == IF req.verb = "POST" THEN PostShape(body.json)
                     ELSE PutShape(body.json)
            refused(message) == Answers(400, message) /\ fs = pre /\ calls = <<>>
        IN /\ IF body.content_type # "application/json"
              THEN refused("expecting JSON data")
              ELSE IF ~body.decodes THEN refused("could not decode request body")
              ELSE IF ~body.parses THEN refused("could not parse JSON request body")
              ELSE IF ~shape THEN refused("data does not match expected schema")
              ELSE resp.body.message \notin ValidatorMessages
           /\ body = JsonBody(JObject(<<>>)) =>
                  IF req.verb = "POST"
                  THEN refused("data does not match expected schema")
                  ELSE resp.body.message \notin ValidatorMessages

\* C12 witness: a POST whose body is neither application/json nor decodable
\* was answered "expecting JSON data", the first of the two failures.
C12_Witness ==
    /\ req.verb = "POST"
    /\ req.body.content_type = "text/plain"
    /\ ~req.body.decodes
    /\ Answers(400, "expecting JSON data")

\* What the handler of the last request did, from the tree it was entered
\* with.
Outcome ==
    CASE req.verb = "GET" -> get(pre, req.target, encoding)
      [] req.verb = "POST" -> post(pre, req.target, req.body, encoding)
      [] req.verb = "PUT" -> put(pre, req.target, req.body, encoding)
      [] req.verb = "DELETE" -> delete(pre, req.target, encoding)

\* The messages of the explicit operation errors.
OperationMessages ==
    ValidatorMessages
    \cup {"cannot encode character in path", "cannot encode 'data'",
          "cannot append to directory", "file already exists",
          "cannot write to directory", "refusing to delete root directory",
          "directory not empty"}

FailureMessages ==
    OperationMessages \cup {"file not found", "permission denied", "internal server error"}

C14_ModeNotOctalRefused400 ==
    (/\ req.verb = "PUT"
     /\ BodyValid(PUT_SCHEMA)
     /\ "mode" \in DOMAIN req.body.json.v
     /\ ~IsOctalText(PutModeText)) =>
        (Answers(400, "data does not match expected schema") /\ fs = pre)

\* C15: in every GET response (for an object below the served directory)
\* "mode" is a string of exactly three octal digits, the object's permission
\* bits, whatever other mode bits the object has.
C15_ModeThreeDigits ==
    (Served("GET") /\ WithinRoot(req.target.path) /\ resp.status = 200) =>
        /\ Len(resp.body.mode) = 3
        /\ IsOctalText(resp.body.mode)
        /\ OctValue(resp.body.mode) = pre[Target.at].mode % 512

\* C16: a successful GET on a regular file (no longer than max_size)
\* returns, besides the common fields, "type" = "file", "data" = the decoded
\* content and "size" = the length of the content in bytes.
C16_GetFileFields ==
    (/\ Served("GET")
     /\ WithinRoot(req.target.path)
     /\ TargetIs("file")
     /\ resp.status = 200
     /\ Len(pre[Target.at].data) <= max_size) =>
        /\ DOMAIN resp.body = {"mode", "uid", "gid", "type", "data", "size"}
        /\ resp.body.type = "file"
        /\ resp.body.data = fs_decode(pre[Target.at].data, encoding)
        /\ resp.body.size = Len(pre[Target.at].data)

\* C18: for POST, and for PUT with file semantics (a mode that is a number,
\* a path the resolver accepts), "data" is encoded before the filesystem is
\* touched: a "data" with a character the configured encoding cannot
\* represent is answered 400 "cannot encode 'data'" whether or not the path
\* exists, no os call is issued and the tree is unchanged.
C18_DataEncodedFirst ==
    /\ (req.verb = "POST" /\ BodyValid(POST_SCHEMA) /\ ~CanEncode(PostData, encoding)) =>
           /\ Answers(400, "cannot encode 'data'")
           /\ calls = <<>>
           /\ fs = pre
    /\ (/\ Served("PUT")
        /\ BodyValid(PUT_SCHEMA)
        /\ ~PutDirectory
        /\ IsOctalText(PutModeText)
        /\ ~CanEncode(PutData, encoding)) =>
           /\ Answers(400, "cannot encode 'data'")
           /\ calls = <<>>
           /\ fs = pre

\* C18 witness: a POST of a text Latin-1 cannot encode, to a path that does
\* not exist, was answered 400 "cannot encode 'data'" (not 404).
C18_Witness ==
    /\ Served("POST")
    /\ BodyValid(POST_SCHEMA)
    /\ ~CanEncode(PostData, encoding)
    /\ Target.errno = "ENOENT_LAST"
    /\ Answers(400, "cannot encode 'data'")

\* The fields every GET result has (the time fields are not modelled).
CommonFields == {"mode", "uid", "gid", "type"}

\* A list without repetition, in ascending order, of exactly the texts of S.
SortedListOf(list, S) ==
    /\ {list[i] : i \in 1..Len(list)} = S
    /\ \A i, j \in 1..Len(list) : i < j => LexLess(list[i], list[j])

\* C17: a GET on an object below the served directory that the server may
\* read is answered 200 with a payload that depends only on the type of the
\* object reached after following symbolic links: a directory gives
\* "children", the decoded names of its entries in sorted order, and no
\* "data"; a regular file gives "data" and no "children"; every other type
\* gives only the common fields; "type" is that object's type, never
\* "symbolic link".
C17_PayloadByType ==
    (/\ Served("GET")
     /\ WithinRoot(req.target.path)
     /\ Target.errno = "OK"
     /\ MayAccess(pre[Target.at], 4)) =>
        LET type == pre[Target.at].type IN
        /\ resp.status = 200
        /\ resp.body.type = type
        /\ type # "symbolic link"
        /\ CASE type = "directory" ->
                  /\ DOMAIN resp.body = CommonFields \cup {"children"}
                  /\ SortedListOf(resp.body.children,
                                  {fs_decode(q[Len(q)], encoding) : q \in Children(pre, Target.at)})
             [] type = "file" ->
                  /\ "data" \in DOMAIN resp.body
                  /\ "children" \notin DOMAIN resp.body
             [] OTHER -> DOMAIN resp.body = CommonFields

\* C19: no descriptor leaks. A handler that has not opened yet, or that is
\* past the with statement (about to respond, or returned), holds no
\* descriptor, whether the body ended normally or with a failure of fstat,
\* read, listdir or write; the descriptors held are exactly those of the
\* handlers inside their with statement; when no handler is in progress,
\* after any sequence of requests, none is held.
C19_NoDescriptorLeak ==
    /\ \A c \in Conns :
           proc[c].pc \in {"idle", "open", "respond"} => proc[c].fd = -1
    /\ fds = {proc[c].fd :
                 c \in {d \in Conns :
                           proc[d].pc \in {"fstat", "read", "listdir", "write", "close"}}}
    /\ (\A c \in Conns : proc[c].pc = "idle") => fds = {}

\* C19 witness: a GET whose file was opened and whose fstat or read then
\* failed has returned (answered 500), and no descriptor is held.
C19_Witness ==
    /\ \A c \in Conns : proc[c].pc = "idle"
    /\ proc[1].verb = "GET"
    /\ proc[1].at # <<>>
    /\ proc[1].exc = Raise("OSError")
    /\ proc[1].status = 500
    /\ fds = {}

\* The file "a" of the served directory and what it held at the start.
FileA == RootComps \o << <<97>> >>
PathA == PathJoin(RootBytes, <<97>>)

\* The orders in which the connections of S can be lined up.
RECURSIVE Orders(_)
Orders(S) ==
    IF S = {} THEN {<<>>}
    ELSE UNION {{<<c>> \o rest : rest \in Orders(S \ {c})} : c \in S}

\* The data of the connections' requests, one block after the other.
RECURSIVE Blocks(_)
Blocks(order) ==
    IF order = <<>> THEN <<>> ELSE proc[Head(order)].data \o Blocks(Tail(order))

\* Every connection has had one request, a POST to the file "a" answered
\* 200, and no request is in progress.
AllAppended ==
    \A c \in Conns :
        /\ proc[c].pc = "idle"
        /\ proc[c].n = 1
        /\ proc[c].verb = "POST"
        /\ proc[c].path = PathA
        /\ proc[c].status = 200

\* C20: concurrent appends interleave only by whole requests. After the
\* connections' POSTs to one file, all answered 200, whatever the
\* interleaving of their os calls, the file holds what it held before
\* followed by the blocks of data, each whole, in some order: nothing of
\* the old content or of a block is lost and no block is split.
C20_AppendsWhole ==
    AllAppended =>
        \E order \in Orders(Conns) :
            fs[FileA].data = StepsFs[FileA].data \o Blocks(order)

\* C20 witness: two POSTs of different data that both opened the file
\* before either wrote (each found the old length) were answered 200.
C20_Witness ==
    /\ AllAppended
    /\ proc[1].data # proc[2].data
    /\ \A c \in Conns : proc[c].seen = Len(StepsFs[FileA].data)

\* A DELETE on connection c has been answered after its rmdir was called.
RmdirAnswered(c) ==
    /\ proc[c].pc = "idle"
    /\ proc[c].verb = "DELETE"
    /\ proc[c].at # <<>>

\* C21: DELETE answers "directory not empty" only when the target was a
\* directory with at least one entry at the moment rmdir was called; when
\* the directory was gone by then (another DELETE removed it first) the
\* answer is 404 "file not found".
C21_NotEmptyOnlyWhenNotEmpty ==
    \A c \in Conns :
        RmdirAnswered(c) =>
            /\ proc[c].exc.message = "directory not empty" => proc[c].seen >= 1
            /\ proc[c].seen = -1 =>
                   (proc[c].status = 404 /\ proc[c].exc.exc = "FileNotFoundError")

\* An object of the tree that is neither the served directory nor below it.
Outside(q) == ~IsPrefix(RootComps, q)

\* C22: no operation touches an object outside the served directory, links
\* in the tree included: a request whose resolved path lies within the
\* served directory leaves every outside object as it was and creates none,
\* and when it is a GET answered 200, the object described is the served
\* directory or lies below it.
C22_NothingOutsideRoot ==
    (req.verb # "none" /\ WithinRoot(req.target.path)) =>
        /\ \A q \in DOMAIN pre \cup DOMAIN fs :
               Outside(q) =>
                   (q \in DOMAIN pre /\ q \in DOMAIN fs /\ fs[q] = pre[q])
        /\ (req.verb = "GET" /\ resp.status = 200) => ~Outside(Target.at)

====
